---- MODULE Spec2Model ----
(***************************************************************************)
(* A model of album_ratings.py: the rating engine (calculate_album_rating *)
(* with its track filter and half-up rounding), the album processor       *)
(* (process_album) and the run controller (the loop of main).             *)
(*                                                                         *)
(* Python's Optional[x] is modelled as a sequence of length at most one:  *)
(* None is <<>> and a present value v is <<v>>.                            *)
(* Floating point values are kept as exact scaled integers; on lists of   *)
(* fewer than 8 tracks the integer formulas give the values the float     *)
(* code computes (no tie of the roundings falls on an inexact float).     *)
(***************************************************************************)
EXTENDS Integers, Sequences, FiniteSets

VARIABLES
    mode,       \* main: mode, "preview" or "update"
    albums,     \* main: albums, as returned by get_all_albums
    i,          \* main: number of albums the loop has processed
    pc,         \* main: "loop" while iterating, "done" after the loop
    results,    \* main: results
    stats,      \* main: stats
    listCalls,  \* calls of get_album_tracks made so far: [idx, key]
    putCalls,   \* calls of update_album_rating made so far: [idx, key, value, ok]
    tracks,     \* the argument of a call of calculate_album_rating
    out         \* what that call returned (<<>> while the call is pending)

vars == <<mode, albums, i, pc, results, stats, listCalls, putCalls, tracks, out>>

runVars == <<mode, albums, i, pc, results, stats, listCalls, putCalls>>

\* ---------------------------------------------------------------- bounds
MaxTracks == 4

MaxAlbums == 2

\* ------------------------------------------------------------- Optional
None == <<>>

Some(v) == <<v>>

Val(o) == o[1]

\* --------------------------------------------------------- list helpers
Min2(a, b) == IF a <= b THEN a ELSE b

Max2(a, b) == IF a >= b THEN a ELSE b

RECURSIVE SumSeq(_)
SumSeq(s) == IF s = <<>> THEN 0 ELSE Head(s) + SumSeq(Tail(s))

RECURSIVE MinSeq(_)
MinSeq(s) == IF Len(s) = 1 THEN s[1] ELSE Min2(Head(s), MinSeq(Tail(s)))

RECURSIVE MaxSeq(_)
MaxSeq(s) == IF Len(s) = 1 THEN s[1] ELSE Max2(Head(s), MaxSeq(Tail(s)))

SeqsUpTo(S, n) == UNION {[1..k -> S] : k \in 0..n}

\* ------------------------------------------------------------ formatting
\* f"{avg_rating:.1f}" of the float sum/n, in tenths: Python rounds the exact
\* binary value half-to-even; below 20 tracks every decimal tie is a
\* multiple of 1/4 and is exact in binary.
Fmt1(sum, n) ==
    LET q == (10 * sum) \div n
        r == (10 * sum) % n
    IN  IF 2 * r > n \/ (2 * r = n /\ q % 2 = 1) THEN q + 1 ELSE q

\* round_half_up(num/den, decimals) with multiplier = 10**decimals; the
\* result is returned in units of 1/multiplier.
round_half_up(num, den, multiplier) == (2 * num * multiplier + den) \div (2 * den)

\* The messages. A message is its template and the values formatted into it.
NoRatedTracks == [text |-> "No rated tracks", args |-> <<>>]

HasUnrated(count, min, avg10) ==
    [text |-> "Has {unrated_count} unrated tracks (min: {min_rating}, avg: {avg_rating:.1f})",
     args |-> <<count, min, avg10>>]

TooFew(count, removed, min, avg10) ==
    IF removed > 0
    THEN [text |-> "Too few tracks {len(filtered_tracks)} tracks ({removed_tracks} tracks filtered): (min: {min_rating}, avg: {avg_rating:.1f})",
          args |-> <<count, removed, min, avg10>>]
    ELSE [text |-> "Too few tracks {len(filtered_tracks)} tracks: (min: {min_rating}, avg: {avg_rating:.1f})",
          args |-> <<count, min, avg10>>]

AlbumAlreadyRated == [text |-> "Album already rated", args |-> <<>>]

\* ---------------------------------------------------------- track filter
\* `track.get("duration", 0) < 60 and track.get("rating", 0) < 3`: the key
\* "rating" is always present, so an unrated track yields None and the
\* comparison None < 3 raises TypeError; `and` evaluates it only when the
\* duration is below 60.
FilterRaises(t) == t.duration < 60 /\ t.rating = None

Keep(t) == ~(t.duration < 60 /\ Val(t.rating) < 3) /\ ~(t.duration < 30)

AnyRaises(ts) == \E k \in 1..Len(ts) : FilterRaises(ts[k])

FilterTracks(ts) == SelectSeq(ts, Keep)

\* ---------------------------------------------------------- rating engine
IsRated(t) == t.rating # None

\* [track["rating"] for track in ts]
RatingsOf(ts) == [k \in 1..Len(ts) |-> Val(ts[k].rating)]

PresentRatings(ts) == RatingsOf(SelectSeq(ts, IsRated))

\* A variant that forgets absent ratings (only 0 counts as unrated).
IsUnrated_zero_only(t) == t.rating = Some(0)

\* A variant that forgets the rating 0 (only absent counts as unrated).
IsUnrated_none_only(t) == t.rating = None

IsUnrated(t) == t.rating = None \/ t.rating = Some(0)

UnratedCount(ts) == Len(SelectSeq(ts, IsUnrated))

Returned(rating, reason) == [rating |-> rating, reason |-> reason, raised |-> FALSE]

Raised == [rating |-> None, reason |-> None, raised |-> TRUE]

IsExcellent(r) == r >= 9

IsVeryGood(r) == 7 <= r /\ r < 9

IsBelowAverage(r) == 4 <= r /\ r < 6

IsPoor(r) == r < 4

BestTrackBonus(max_rating) ==
    IF max_rating >= 9 THEN 7 ELSE IF max_rating >= 7 THEN 3 ELSE 0

BadTrackPenalty(min_rating) ==
    IF min_rating < 4 THEN 15 ELSE IF min_rating < 6 THEN 8 ELSE 0

NoBadTracksBonus(min_rating) == IF min_rating >= 6 THEN 4 ELSE 0

\* The raw adjustment in units of 1/(10 n), n the number of ratings.
RawAdjustment(ratings) ==
    LET n == Len(ratings)
    IN  12 * Len(SelectSeq(ratings, IsExcellent)) + 5 * Len(SelectSeq(ratings, IsVeryGood))
        + n * BestTrackBonus(MaxSeq(ratings)) + n * NoBadTracksBonus(MinSeq(ratings))
        - 8 * Len(SelectSeq(ratings, IsBelowAverage)) - 18 * Len(SelectSeq(ratings, IsPoor))
        - n * BadTrackPenalty(MinSeq(ratings))

\* max(-1.0, min(1.0, adjustment)), in units of 1/(10 n).
CapAdjustment(adjustment, n) == Max2(-10 * n, Min2(10 * n, adjustment))

\* max(min_rating, avg_rating + adjustment), in units of 1/(10 n).
FinalRating(ratings) ==
    LET n == Len(ratings)
    IN  Max2(10 * n * MinSeq(ratings),
             10 * SumSeq(ratings) + CapAdjustment(RawAdjustment(ratings), n))

\* A variant with the threshold off by one.
TooFewTracks_below_2(n) == n < 2

TooFewTracks(n) == n < 3

RateFiltered(filtered_tracks) ==
    LET ratings == RatingsOf(filtered_tracks)
    IN  round_half_up(FinalRating(ratings), 10 * Len(ratings), 1)

calculate_album_rating(ts) ==
    LET ratings == PresentRatings(ts)
    IN  IF ratings = <<>> THEN Returned(None, Some(NoRatedTracks))
        ELSE
        LET min_rating == MinSeq(ratings)
            avg10 == Fmt1(SumSeq(ratings), Len(ratings))
            unrated_count == UnratedCount(ts)
        IN  IF unrated_count > 0
            THEN Returned(None, Some(HasUnrated(unrated_count, min_rating, avg10)))
            ELSE IF AnyRaises(ts) THEN Raised
            ELSE
            LET filtered_tracks == FilterTracks(ts)
                removed_tracks == Len(ts) - Len(filtered_tracks)
            IN  IF TooFewTracks(Len(filtered_tracks))
                THEN Returned(None, Some(TooFew(Len(filtered_tracks), removed_tracks,
                                                min_rating, avg10)))
                \* min(ratings) over three or more filtered tracks compares the
                \* ratings with each other: an absent one raises TypeError.
                ELSE IF \E k \in 1..Len(filtered_tracks) : ~IsRated(filtered_tracks[k])
                THEN Raised
                ELSE Returned(Some(RateFiltered(filtered_tracks)), None)

\* -------------------------------------------------------- album processor
Statuses == {"Preview", "Success", "Failed", "Skipped"}

NoStats == [s \in Statuses |-> 0]

\* A variant that sends the rating as computed.
update_album_rating_unclamped(rating) == rating

\* max(0, min(10, rating)): the value sent as userRating.value.
update_album_rating(rating) == Max2(0, Min2(10, rating))

get_filtered_tracks(ts) == SelectSeq(ts, Keep)

\* (avg, min, max) of the present ratings, avg as the pair <<sum, count>>;
\* all three None when no track is rated.
get_track_stats(ts) ==
    LET ratings == PresentRatings(ts)
    IN  IF ratings = <<>>
        THEN [avg |-> None, min |-> None, max |-> None]
        ELSE [avg |-> Some(<<SumSeq(ratings), Len(ratings)>>),
              min |-> Some(MinSeq(ratings)), max |-> Some(MaxSeq(ratings))]

\* The key "Reason" is set only for a non-empty skip_reason; a missing key
\* is the field None. The two rounded figures are kept in hundredths.
create_result_dict(album, rating, skip_reason) ==
    [Artist |-> album.artist,
     Album |-> album.title,
     Rating |-> rating,
     Status |-> IF rating = None THEN "Skipped" ELSE "Preview",
     RatingAdjustment |-> None,
     AvgRating |-> None,
     LowestTrack |-> None,
     HighestTrack |-> None,
     Reason |-> skip_reason]

Abs(x) == IF x < 0 THEN -x ELSE x

\* result.update({...}) with the statistics of the filtered tracks.
WithTrackStats(result, rating, st) ==
    IF st.avg = None THEN result
    ELSE LET sum == Val(st.avg)[1]
             n == Val(st.avg)[2]
         IN  [result EXCEPT
                !.RatingAdjustment = Some(round_half_up(Abs(rating * n - sum), n, 100)),
                !.AvgRating = Some(round_half_up(sum, n, 100)),
                !.LowestTrack = st.min,
                !.HighestTrack = st.max]

\* A variant testing the truth value: `if album.get("userRating"):`.
AlreadyRated_truthy(album) == album.userRating # None /\ album.userRating # Some(0)

AlreadyRated(album) == album.userRating # None

\* A variant that writes back in every mode.
ShouldUpdate_any_mode(m) == TRUE

ShouldUpdate(m) == m = "update"

\* A variant that ignores the answer of the service.
StatusAfterUpdate_ignore(success) == "Success"

StatusAfterUpdate(success) == IF success THEN "Success" ELSE "Failed"

\* A variant that counts every album as a preview.
IncrementStat_preview(st, status) == [st EXCEPT !["Preview"] = @ + 1]

\* stats[status] = stats.get(status, 0) + 1
IncrementStat(st, status) == [st EXCEPT ![status] = @ + 1]

\* process_album(album, mode, stats), called for the idx-th album. fetched is
\* what get_album_tracks answers and success what the PUT request answers,
\* for the calls the function makes. The outcome: the result returned, the
\* stats as left, the collaborator calls made, and whether an exception
\* left the function.
process_album(idx, album, m, st, fetched, success) ==
    IF AlreadyRated(album)
    THEN [result |-> create_result_dict(album, None, Some(AlbumAlreadyRated)),
          stats |-> IncrementStat(st, "Skipped"),
          lists |-> <<>>, puts |-> <<>>, raised |-> FALSE]
    ELSE
    LET lists == <<[idx |-> idx, key |-> album.key]>>
        r == calculate_album_rating(fetched)
    IN  IF r.raised
        THEN [result |-> None, stats |-> st, lists |-> lists, puts |-> <<>>,
              raised |-> TRUE]
        ELSE
        LET base == create_result_dict(album, r.rating, r.reason)
        IN  IF r.rating = None
            THEN [result |-> base, stats |-> IncrementStat(st, base.Status),
                  lists |-> lists, puts |-> <<>>, raised |-> FALSE]
            ELSE
            LET rating == Val(r.rating)
                full == WithTrackStats(base, rating,
                                       get_track_stats(get_filtered_tracks(fetched)))
                final == IF ShouldUpdate(m)
                         THEN [full EXCEPT !.Status = StatusAfterUpdate(success)]
                         ELSE full
                puts == IF ShouldUpdate(m)
                        THEN <<[idx |-> idx, key |-> album.key,
                                value |-> update_album_rating(rating), ok |-> success]>>
                        ELSE <<>>
            IN  [result |-> final, stats |-> IncrementStat(st, final.Status),
                 lists |-> lists, puts |-> puts, raised |-> FALSE]

\* --------------------------------------------------------- run controller
Modes == {"preview", "update"}

UserRatings == {None, Some(0), Some(8)}

\* The k-th album of the library.
AlbumOf(k, u) ==
    [key |-> k,
     title |-> <<"title", k>>,
     artist |-> IF k % 2 = 1 THEN "artist A" ELSE "artist B",
     userRating |-> u]

\* What get_all_albums may return: the albums of the library in the order
\* the service lists them, each rated by the user or not.
AlbumLists ==
    UNION {{[k \in 1..n |-> AlbumOf(k, u[k])] : u \in [1..n -> UserRatings]} :
              n \in 0..MaxAlbums}

\* What get_album_tracks may return during a run (the empty list also when
\* the request fails): tracks rated 10, then at most one track each that is
\* rated 7, unrated, or short and rated 2.
Repeat(t, n) == [k \in 1..n |-> t]

RunTrackLists ==
    {Repeat([rating |-> Some(10), duration |-> 200], x)
        \o Repeat([rating |-> Some(7), duration |-> 200], w)
        \o Repeat([rating |-> None, duration |-> 200], y)
        \o Repeat([rating |-> Some(2), duration |-> 45], z) :
          x \in 0..MaxTracks, w \in 0..1, y \in 0..1, z \in 0..1}

\* A variant that puts the new record first.
results_prepend(rs, r) == <<r>> \o rs

results_append(rs, r) == Append(rs, r)

Init ==
    /\ mode \in Modes
    /\ pc = "fetch"
    /\ albums = <<>>
    /\ i = 0
    /\ results = <<>>
    /\ stats = NoStats
    /\ listCalls = <<>>
    /\ putCalls = <<>>
    /\ tracks = <<>>
    /\ out = None

GetAllAlbums ==
    /\ pc = "fetch"
    /\ albums' \in AlbumLists
    /\ pc' = "loop"
    /\ UNCHANGED <<mode, i, results, stats, listCalls, putCalls, tracks, out>>

\* One iteration of the loop of main: process_album, results.append.
ProcessNext ==
    /\ pc = "loop"
    /\ i < Len(albums)
    /\ \E fetched \in RunTrackLists, success \in BOOLEAN :
         LET p == process_album(i + 1, albums[i + 1], mode, stats, fetched, success)
         IN  /\ listCalls' = listCalls \o p.lists
             /\ putCalls' = putCalls \o p.puts
             /\ stats' = p.stats
             /\ IF p.raised
                THEN /\ pc' = "aborted"
                     /\ UNCHANGED <<i, results>>
                ELSE /\ results' = results_append(results, p.result)
                     /\ i' = i + 1
                     /\ pc' = pc
    /\ UNCHANGED <<mode, albums, tracks, out>>

\* The loop is exhausted: the results are saved and summarised.
Finish ==
    /\ pc = "loop"
    /\ i = Len(albums)
    /\ pc' = "done"
    /\ UNCHANGED <<mode, albums, i, results, stats, listCalls, putCalls, tracks, out>>

Next == GetAllAlbums \/ ProcessNext \/ Finish

Spec == Init /\ [][Next]_vars

\* main is one sequential thread: it keeps running until it returns.
FairSpec == Spec /\ WF_vars(Next)

\* --------------------------------------------------- the engine on its own
\* The track lists the engine is applied to: every rating (absent, 0..10) on
\* a track of ordinary length, and the ratings on either side of the filter's
\* threshold on tracks below 60 and below 30 seconds.
RatingValues == {None} \cup {Some(r) : r \in 0..10}

ShortRatingValues == {None, Some(2), Some(3)}

Track ==
    [rating : RatingValues, duration : {200}]
        \cup [rating : ShortRatingValues, duration : {45}]
        \cup [rating : {None, Some(10)}, duration : {0}]

EngineInit ==
    /\ tracks = <<>>
    /\ out = None
    /\ mode = "preview" /\ albums = <<>> /\ i = 0 /\ pc = "done"
    /\ results = <<>> /\ stats = NoStats
    /\ listCalls = <<>> /\ putCalls = <<>>

\* The caller builds the argument, one track at a time.
AddTrack ==
    /\ out = None
    /\ Len(tracks) < MaxTracks
    /\ \E t \in Track : tracks' = Append(tracks, t)
    /\ UNCHANGED <<out, runVars>>

Calculate ==
    /\ out = None
    /\ out' = Some(calculate_album_rating(tracks))
    /\ UNCHANGED <<tracks, runVars>>

EngineNext == AddTrack \/ Calculate

EngineSpec == EngineInit /\ [][EngineNext]_vars

\* ------------------------------------------------------------ properties
Processed == 1..Len(results)

CallsFor(calls, k) == {c \in DOMAIN calls : calls[c].idx = k}

CountStatus(status) == Cardinality({k \in Processed : results[k].Status = status})

\* C1: an album whose user rating is present is recorded as Skipped with the
\* reason "Album already rated", and neither get_album_tracks nor
\* update_album_rating is called for it.
C1_AlreadyRatedSkipped ==
    \A k \in Processed :
        albums[k].userRating # None =>
            /\ results[k].Status = "Skipped"
            /\ results[k].Reason = Some(AlbumAlreadyRated)
            /\ CallsFor(listCalls, k) = {}
            /\ CallsFor(putCalls, k) = {}

\* A finished update run in which a rated album (its rating 0) was skipped
\* while another album was fetched and written back.
C1_Witness ==
    /\ pc = "done"
    /\ mode = "update"
    /\ \E k \in Processed : albums[k].userRating = Some(0)
    /\ listCalls # <<>>
    /\ putCalls # <<>>

\* C2: in preview mode update_album_rating is never called and every record
\* is Skipped or Preview; in update mode every record is Skipped, Success or
\* Failed, and update_album_rating is called only for albums for which the
\* engine produced a rating.
C2_ModeDiscipline ==
    /\ mode = "preview" =>
          /\ putCalls = <<>>
          /\ \A k \in Processed : results[k].Status \in {"Skipped", "Preview"}
    /\ mode = "update" =>
          /\ \A k \in Processed : results[k].Status \in {"Skipped", "Success", "Failed"}
          /\ \A c \in DOMAIN putCalls :
                /\ putCalls[c].idx \in Processed
                /\ results[putCalls[c].idx].Rating # None

\* A finished preview run with a computed rating and a skipped album.
C2_Witness ==
    /\ pc = "done"
    /\ mode = "preview"
    /\ \E k \in Processed : results[k].Status = "Preview" /\ results[k].Rating # None
    /\ \E k \in Processed : results[k].Status = "Skipped"

\* C3: each call of process_album adds exactly 1 to the counter named by the
\* status of the record it returns and leaves the others alone; so the four
\* counters sum to the number of albums processed and each equals the number
\* of records with its status.
C3_OneIncrementPerAlbum ==
    /\ [][results' # results =>
            stats' = [stats EXCEPT ![results'[Len(results')].Status] = @ + 1]]_vars
    /\ [](/\ stats["Preview"] + stats["Success"] + stats["Failed"] + stats["Skipped"] = i
          /\ i = Len(results)
          /\ \A s \in Statuses : stats[s] = CountStatus(s))

\* Two albums processed, with different statuses.
C3_Witness ==
    /\ Len(results) >= 2
    /\ stats["Failed"] = 1
    /\ stats["Skipped"] >= 1

\* C4: in update mode, when the engine produced a rating and the write-back
\* answers false, the record is Failed, the Failed counter grows by 1 and no
\* other counter changes, and the write-back is attempted once.
C4_WriteBackFailure ==
    [][(/\ Len(putCalls') > Len(putCalls)
        /\ \E c \in (Len(putCalls) + 1)..Len(putCalls') : ~putCalls'[c].ok)
       => /\ Len(putCalls') = Len(putCalls) + 1
          /\ mode = "update"
          /\ Len(results') = Len(results) + 1
          /\ results'[Len(results')].Status = "Failed"
          /\ results'[Len(results')].Rating # None
          /\ stats' = [stats EXCEPT !["Failed"] = @ + 1]
          /\ Cardinality(CallsFor(putCalls', i + 1)) = 1]_vars

\* A write-back that failed.
C4_Witness ==
    /\ mode = "update"
    /\ \E c \in DOMAIN putCalls :
          /\ ~putCalls[c].ok
          /\ results[putCalls[c].idx].Status = "Failed"
    /\ stats["Failed"] >= 1

\* C5: the run terminates whatever the collaborators answer, and at the end
\* the results hold one record per album, in the order of the albums.
C5_RunCompletes ==
    /\ <>(pc = "done")
    /\ [](pc = "done" =>
            /\ Len(results) = Len(albums)
            /\ \A k \in 1..Len(albums) :
                  /\ results[k].Artist = albums[k].artist
                  /\ results[k].Album = albums[k].title)

\* A finished run over two albums: an empty track list for one, a failed
\* write-back for the other.
C5_Witness ==
    /\ pc = "done"
    /\ Len(albums) >= 2
    /\ \E k \in Processed : results[k].Reason = Some(NoRatedTracks)
    /\ \E k \in Processed : results[k].Status = "Failed"

\* C10: every value update_album_rating submits lies in 0..10.
C10_SubmittedInRange ==
    \A c \in DOMAIN putCalls : 0 <= putCalls[c].value /\ putCalls[c].value <= 10

\* The engine computed 11 and 10 was submitted.
C10_Witness ==
    \E c \in DOMAIN putCalls :
        /\ results[putCalls[c].idx].Rating = Some(11)
        /\ putCalls[c].value = 10

\* ----------------------------------------------- properties of the engine
\* The Track Filter as the contract words it: a track survives unless it is
\* shorter than 30 seconds, or shorter than 60 seconds and rated below 3
\* (an absent rating counting as 0).
RatingOrZero(t) == IF t.rating = None THEN 0 ELSE Val(t.rating)

Surviving(ts) ==
    {k \in DOMAIN ts :
        ~(ts[k].duration < 30) /\ ~(ts[k].duration < 60 /\ RatingOrZero(ts[k]) < 3)}

Unrated(ts) == {k \in DOMAIN ts : ts[k].rating \in {None, Some(0)}}

Rated(ts) == {k \in DOMAIN ts : ts[k].rating # None}

UnratedText == HasUnrated(0, 0, 0).text

TooFewTexts == {TooFew(0, 0, 0, 0).text, TooFew(0, 1, 0, 0).text}

Result == Val(out)

\* C6: a returned rating is at least the lowest rating among the surviving
\* tracks and at most 10.
C6_RatingWithinBounds ==
    (out # None /\ Result.rating # None) =>
        /\ \E k \in Surviving(tracks) :
              /\ \A j \in Surviving(tracks) :
                    RatingOrZero(tracks[k]) <= RatingOrZero(tracks[j])
              /\ Val(Result.rating) >= RatingOrZero(tracks[k])
        /\ Val(Result.rating) <= 10

\* C7 as stated: whenever some track is unrated (absent or 0), the rating is
\* absent and the reason gives the number of unrated tracks.
C7_UnratedCountAlways ==
    (out # None /\ Unrated(tracks) # {}) =>
        /\ Result.rating = None
        /\ Result.reason # None
        /\ Val(Result.reason).text = UnratedText
        /\ Val(Result.reason).args[1] = Cardinality(Unrated(tracks))

\* C7 (amended): whenever some track is unrated (absent or 0), the rating is
\* absent; the reason gives the number of unrated tracks if some track has a
\* rating present, and is "No rated tracks" if none has.
C7_UnratedSkipped ==
    (out # None /\ Unrated(tracks) # {}) =>
        /\ Result.rating = None
        /\ Result.reason # None
        /\ Rated(tracks) # {} =>
              /\ Val(Result.reason).text = UnratedText
              /\ Val(Result.reason).args[1] = Cardinality(Unrated(tracks))
        /\ Rated(tracks) = {} => Result.reason = Some(NoRatedTracks)

\* A list with an absent rating, a rating 0 and a rating present: the reason
\* counts 2 unrated tracks.
C7_Witness ==
    /\ out # None
    /\ \E k \in DOMAIN tracks : tracks[k].rating = None
    /\ \E k \in DOMAIN tracks : tracks[k].rating = Some(0)
    /\ \E k \in DOMAIN tracks : tracks[k].rating \notin {None, Some(0)}
    /\ Cardinality(Unrated(tracks)) = 2
    /\ Val(Result.reason).text = UnratedText
    /\ Val(Result.reason).args[1] = 2

\* C8 as stated: whenever fewer than 3 tracks survive the filter (the empty
\* list and lists with unrated tracks included), the rating is absent and
\* the reason gives the number of surviving tracks.
C8_RemainingCountAlways ==
    (out # None /\ Cardinality(Surviving(tracks)) < 3) =>
        /\ Result.rating = None
        /\ Result.reason # None
        /\ Val(Result.reason).text \in TooFewTexts
        /\ Val(Result.reason).args[1] = Cardinality(Surviving(tracks))

\* C8 (amended): whenever fewer than 3 tracks survive the filter, the rating
\* is absent; the reason gives the number of surviving tracks if the list is
\* not empty and none of its tracks is unrated (absent or 0).
C8_TooFewSkipped ==
    (out # None /\ Cardinality(Surviving(tracks)) < 3) =>
        /\ Result.rating = None
        /\ Result.reason # None
        /\ (tracks # <<>> /\ Unrated(tracks) = {}) =>
              /\ Val(Result.reason).text \in TooFewTexts
              /\ Val(Result.reason).args[1] = Cardinality(Surviving(tracks))

\* Four rated tracks of which the filter removes two: the reason counts the
\* 2 that remain.
C8_Witness ==
    /\ out # None
    /\ Len(tracks) = 4
    /\ Unrated(tracks) = {}
    /\ Cardinality(Surviving(tracks)) = 2
    /\ Val(Result.reason).text \in TooFewTexts
    /\ Val(Result.reason).args = <<2, 2, MinSeq(PresentRatings(tracks)),
                                   Fmt1(SumSeq(PresentRatings(tracks)), 4)>>

\* C9: the engine raises no error and returns either a rating or a reason,
\* never both and never neither.
C9_RatingXorReason ==
    out # None =>
        /\ ~Result.raised
        /\ (Result.rating = None) # (Result.reason = None)

\* The engine returned a reason for a list holding an unrated track shorter
\* than 60 seconds (the track the filter could not compare) next to rated
\* tracks.
C9_Witness ==
    /\ out # None
    /\ \E k \in DOMAIN tracks : tracks[k].rating = None /\ tracks[k].duration < 60
    /\ Cardinality(Rated(tracks)) >= 3
    /\ ~Result.raised
    /\ Result.rating = None
    /\ Result.reason # None

====
